---- MODULE Spec2Model ----
(***************************************************************************)
(* Model of backtester.py: the moving-average crossover pipeline           *)
(*   calculate_moving_averages -> generate_signals -> simulate_trades      *)
(*   -> calculate_metrics.                                                 *)
(*                                                                         *)
(* Rows are numbered from 1 here (pandas position p is row p+1); the Date  *)
(* of a row is its row number in the unfiltered price series.  Prices and  *)
(* capital are integers; every quotient the code forms (rolling means,     *)
(* percentages) is kept exact as a fraction [num, den].  A fraction with   *)
(* den = 0 is what the float division yields on a zero divisor: NaN when   *)
(* num = 0 and an infinity of the sign of num otherwise.                   *)
(***************************************************************************)
EXTENDS Integers, Sequences, FiniteSets, TLC

\* ---------------------------------------------------------------- bounds
MaxLen == 5
MaxPrice == 3

\* ------------------------------------------------------------- fractions
NaN == [num |-> 0, den |-> 0]

Num(n) == [num |-> n, den |-> 1]

Frac(n, d) == IF d < 0 THEN [num |-> -n, den |-> -d] ELSE [num |-> n, den |-> d]

IsNaN(r) == r.num = 0 /\ r.den = 0

\* float comparison: anything compared with NaN is false
RatLT(a, b) ==
    /\ ~IsNaN(a)
    /\ ~IsNaN(b)
    /\ IF a.den = 0 /\ b.den = 0
       THEN a.num < b.num
       ELSE a.num * b.den < b.num * a.den

RatGT(a, b) == RatLT(b, a)

RatEQ(a, b) ==
    /\ ~IsNaN(a)
    /\ ~IsNaN(b)
    /\ IF a.den = 0 \/ b.den = 0
       THEN a.den = 0 /\ b.den = 0 /\ (a.num > 0) = (b.num > 0)
       ELSE a.num * b.den = b.num * a.den

RatLE(a, b) == RatLT(a, b) \/ RatEQ(a, b)

\* Python floor division, divisor not zero
FloorDiv(a, b) == IF b > 0 THEN a \div b ELSE (-a) \div (-b)

RECURSIVE SumRange(_, _, _)
SumRange(s, lo, hi) == IF lo > hi THEN 0 ELSE s[hi] + SumRange(s, lo, hi - 1)

\* ------------------------------------------------------------- pipeline
\* variant: the mean of the points available so far (min_periods = 1)
RollingMean_MinPeriods(closes, i, window) ==
    IF i >= window
    THEN Frac(SumRange(closes, i - window + 1, i), window)
    ELSE Frac(SumRange(closes, 1, i), i)

\* Series.rolling(window).mean(): NaN until `window` points are available
RollingMean(closes, i, window) ==
    IF i >= window
    THEN Frac(SumRange(closes, i - window + 1, i), window)
    ELSE NaN

calculate_moving_averages(closes, short_w, long_w) ==
    [i \in 1..Len(closes) |->
        [Date      |-> i,
         Close     |-> closes[i],
         SMA_Short |-> RollingMean(closes, i, short_w),
         SMA_Long  |-> RollingMean(closes, i, long_w)]]

\* variant: a warm-up row is given the sell-side signal instead of 0
SignalOf_WarmupIsSell(r) ==
    IF RatGT(r.SMA_Short, r.SMA_Long) THEN 1 ELSE -1

\* variant: equal averages give the buy-side signal
SignalOf_TieIsBuy(r) ==
    IF RatGT(r.SMA_Short, r.SMA_Long) \/ RatEQ(r.SMA_Short, r.SMA_Long) THEN 1
    ELSE IF RatLT(r.SMA_Short, r.SMA_Long) THEN -1
    ELSE 0

\* Signal starts at 0 and is overwritten by the two comparisons; on a row
\* whose average is NaN both comparisons are false and it stays 0.
SignalOf(r) ==
    IF RatGT(r.SMA_Short, r.SMA_Long) THEN 1
    ELSE IF RatLE(r.SMA_Short, r.SMA_Long) THEN -1
    ELSE 0

\* Position = Signal.diff(), taken over the unfiltered frame: NaN on row 1
generate_signals(frame) ==
    [i \in 1..Len(frame) |->
        [Date      |-> frame[i].Date,
         Close     |-> frame[i].Close,
         SMA_Short |-> frame[i].SMA_Short,
         SMA_Long  |-> frame[i].SMA_Long,
         Signal    |-> SignalOf(frame[i]),
         Position  |-> IF i = 1 THEN NaN
                       ELSE Num(SignalOf(frame[i]) - SignalOf(frame[i - 1]))]]

HasNaN(r) == IsNaN(r.SMA_Short) \/ IsNaN(r.SMA_Long) \/ IsNaN(r.Position)

NotNaNRow(r) == ~HasNaN(r)

dropna(frame) == SelectSeq(frame, NotNaNRow)

\* -------------------------------------------------------------- metrics
RECURSIVE CumMax(_, _)
CumMax(values, t) ==
    IF t = 1 THEN values[1]
    ELSE LET m == CumMax(values, t - 1) IN IF values[t] > m THEN values[t] ELSE m

Drawdown(values, t) ==
    Frac((values[t] - CumMax(values, t)) * 100, CumMax(values, t))

\* Series.min() skips NaN; it is NaN when nothing is left
RECURSIVE MinSkipNaN(_, _, _)
MinSkipNaN(values, t, best) ==
    IF t > Len(values) THEN best
    ELSE LET d == Drawdown(values, t) IN
         MinSkipNaN(values, t + 1,
                    IF IsNaN(d) THEN best
                    ELSE IF IsNaN(best) \/ RatLT(d, best) THEN d
                    ELSE best)

\* line 148
IsSell(t) == t.Type = "SELL"

\* variant: a break-even round trip counts as a win
IsWinningSell_BreakEven(t) == t.Profit >= 0

\* line 153, applied to sell_trades only
IsWinningSell(t) == t.Profit > 0

MetricsOf(trade_log, values, init_cap, final_val) ==
    LET sell_trades == SelectSeq(trade_log, IsSell)
        num_trades  == Len(sell_trades)
        winning     == Len(SelectSeq(sell_trades, IsWinningSell))
    IN  [total_return    |-> Frac((final_val - init_cap) * 100, init_cap),
         num_trades      |-> num_trades,
         win_rate        |-> IF num_trades > 0
                             THEN Frac(winning * 100, num_trades)
                             ELSE Num(0),
         max_drawdown    |-> IF Len(values) > 0
                             THEN MinSkipNaN(values, 1, NaN)
                             ELSE Num(0),
         final_value     |-> final_val,
         initial_capital |-> init_cap]

NoMetrics ==
    [total_return |-> NaN, num_trades |-> 0, win_rate |-> NaN,
     max_drawdown |-> NaN, final_value |-> 0, initial_capital |-> 0]

\* ---------------------------------------------------------------- state
VARIABLES
    prices,            \* input: the Close column, oldest first
    short_window,      \* input
    long_window,       \* input
    initial_capital,   \* input
    pc,                \* "start", "loop", "simulated", "done", "IndexError", "nonfinite"
    df,                \* simulate_trades: the frame after dropna()
    idx,               \* simulate_trades: rows of df already iterated
    capital,
    shares,
    in_position,
    entry_price,
    entry_date,        \* 0 stands for None
    trades,
    portfolio_values,  \* the Value column of portfolio_df, with Date
    final_value,
    unrealized_profit,
    unrealized_pct,
    metrics

inputs == <<prices, short_window, long_window, initial_capital>>

sim == <<capital, shares, in_position, entry_price, entry_date>>

outputs == <<final_value, unrealized_profit, unrealized_pct, metrics>>

vars == <<inputs, pc, df, idx, sim, trades, portfolio_values, outputs>>

RECURSIVE SeqsUpTo(_, _)
SeqsUpTo(S, n) ==
    IF n = 0 THEN {<<>>}
    ELSE LET shorter == SeqsUpTo(S, n - 1) IN
         shorter \cup {Append(s, x) : s \in {t \in shorter : Len(t) = n - 1}, x \in S}

InitWith(series, windows, capitals) ==
    /\ prices \in series
    /\ \E w \in windows : short_window = w[1] /\ long_window = w[2]
    /\ initial_capital \in capitals
    /\ pc = "start"
    /\ df = <<>>
    /\ idx = 0
    /\ capital = 0
    /\ shares = 0
    /\ in_position = FALSE
    /\ entry_price = 0
    /\ entry_date = 0
    /\ trades = <<>>
    /\ portfolio_values = <<>>
    /\ final_value = 0
    /\ unrealized_profit = 0
    /\ unrealized_pct = Num(0)
    /\ metrics = NoMetrics

\* windows accepted by main(): short < long
OrderedWindows == {<<1, 2>>, <<1, 3>>, <<2, 3>>}

Capitals == {0, 2, 10}

\* prices as the data source delivers them: positive
Init == InitWith(SeqsUpTo(1..MaxPrice, MaxLen), OrderedWindows, Capitals)

\* prices the core does not validate: zero and negative closes included
InitAnyPrice ==
    InitWith(SeqsUpTo((-1)..MaxPrice, MaxLen), OrderedWindows, Capitals)

\* run_backtest lines 285-286 and the head of simulate_trades
Prepare ==
    /\ pc = "start"
    /\ df' = dropna(generate_signals(
                 calculate_moving_averages(prices, short_window, long_window)))
    /\ capital' = initial_capital
    /\ shares' = 0
    /\ trades' = <<>>
    /\ portfolio_values' = <<>>
    /\ in_position' = FALSE
    /\ entry_price' = 0
    /\ entry_date' = 0
    /\ idx' = 0
    /\ pc' = "loop"
    /\ UNCHANGED <<inputs, outputs>>

\* variant: the held shares are left out of the day's value
PortfolioValue_CashOnly(cash, held, price) == cash

\* line 70: the day's portfolio value, computed at the top of the loop body
PortfolioValue(cash, held, price) == cash + held * price

\* variant: any rise of the signal buys, not only a full crossover
BuyTriggered_AnyRise(row, holding) ==
    row.Position \in {Num(1), Num(2)} /\ ~holding

\* line 74
BuyTriggered(row, holding) == row.Position = Num(2) /\ ~holding

\* variant: the share count is rounded up instead of down
SharesBought_RoundUp(cash, price) == FloorDiv(cash + price - 1, price)

\* line 75: capital // current_price (divisor not zero)
SharesBought(cash, price) == FloorDiv(cash, price)

\* variant: an empty purchase is executed too
BuyExecutes_ZeroShares(bought) == bought >= 0

\* line 76
BuyExecutes(bought) == bought > 0

\* variant: the cost of one share is charged
BuyCost_PerShare(bought, price) == price

\* line 77
BuyCost(bought, price) == bought * price

\* variant: a death cross sells whether or not a position is open
SellTriggered_IgnoresPosition(row, holding) == row.Position = Num(-2)

\* line 90
SellTriggered(row, holding) == row.Position = Num(-2) /\ holding

\* variant: the proceeds of one share are credited
SellRevenue_OneShare(held, price) == price

\* line 91
SellRevenue(held, price) == held * price

\* variant: the proceeds are reported as the profit
SellProfit_Proceeds(price, entry, held) == price * held

\* line 93
SellProfit(price, entry, held) == (price - entry) * held

\* line 94
SellProfitPct(price, entry) == Frac((price - entry) * 100, entry)

\* one iteration of `for date, row in df.iterrows()`
SimulateRow ==
    /\ pc = "loop"
    /\ idx < Len(df)
    /\ LET row == df[idx + 1]
           date == row.Date
           current_price == row.Close
       IN
       /\ idx' = idx + 1
       /\ portfolio_values' =
              Append(portfolio_values,
                     [Date |-> date,
                      Value |-> PortfolioValue(capital, shares, current_price)])
       /\ IF BuyTriggered(row, in_position)
          THEN IF current_price = 0
               THEN \* capital // 0.0 on numpy floats: inf or NaN, no exception;
                    \* every number derived from it afterwards is not finite
                    /\ pc' = "nonfinite"
                    /\ UNCHANGED <<sim, trades>>
               ELSE LET bought == SharesBought(capital, current_price) IN
                    /\ shares' = bought
                    /\ pc' = pc
                    /\ IF BuyExecutes(bought)
                       THEN /\ capital' = capital - BuyCost(bought, current_price)
                            /\ in_position' = TRUE
                            /\ entry_price' = current_price
                            /\ entry_date' = date
                            /\ trades' = Append(trades,
                                   [Type |-> "BUY", Date |-> date,
                                    Price |-> current_price, Shares |-> bought])
                       ELSE UNCHANGED <<capital, in_position, entry_price,
                                        entry_date, trades>>
          ELSE IF SellTriggered(row, in_position)
          THEN /\ capital' = capital + SellRevenue(shares, current_price)
               /\ trades' = Append(trades,
                      [Type |-> "SELL", Date |-> date, Price |-> current_price,
                       Shares |-> shares,
                       Profit |-> SellProfit(current_price, entry_price, shares),
                       Profit_Pct |-> SellProfitPct(current_price, entry_price)])
               /\ shares' = 0
               /\ in_position' = FALSE
               /\ entry_price' = 0
               /\ entry_date' = 0
               /\ pc' = pc
          ELSE UNCHANGED <<pc, sim, trades>>
    /\ UNCHANGED <<inputs, df, outputs>>

\* variant: the open position is left out of the final value
FinalValue_CashOnly(cash, held, final_price) == cash

\* line 112
FinalValue(cash, held, final_price) == cash + held * final_price

\* lines 115-120
UnrealizedProfit(holding, final_price, entry, held) ==
    IF holding THEN (final_price - entry) * held ELSE 0

UnrealizedPct(holding, final_price, entry) ==
    IF holding THEN Frac((final_price - entry) * 100, entry) ELSE Num(0)

\* lines 110-134: df.iloc[-1] raises IndexError on an empty frame
Finalize ==
    /\ pc = "loop"
    /\ idx = Len(df)
    /\ IF Len(df) = 0
       THEN /\ pc' = "IndexError"
            /\ UNCHANGED <<final_value, unrealized_profit, unrealized_pct>>
       ELSE LET final_price == df[Len(df)].Close IN
            /\ final_value' = FinalValue(capital, shares, final_price)
            /\ unrealized_profit' =
                   UnrealizedProfit(in_position, final_price, entry_price, shares)
            /\ unrealized_pct' =
                   UnrealizedPct(in_position, final_price, entry_price)
            /\ pc' = "simulated"
    /\ UNCHANGED <<inputs, df, idx, sim, trades, portfolio_values, metrics>>

RECURSIVE ValueColumn(_)
ValueColumn(snaps) ==
    IF snaps = <<>> THEN <<>>
    ELSE <<Head(snaps).Value>> \o ValueColumn(Tail(snaps))

calculate_metrics ==
    /\ pc = "simulated"
    /\ metrics' = MetricsOf(trades, ValueColumn(portfolio_values),
                            initial_capital, final_value)
    /\ pc' = "done"
    /\ UNCHANGED <<inputs, df, idx, sim, trades, portfolio_values,
                   final_value, unrealized_profit, unrealized_pct>>

Next == Prepare \/ SimulateRow \/ Finalize \/ calculate_metrics

Spec == Init /\ [][Next]_vars

SpecAnyPrice == InitAnyPrice /\ [][Next]_vars

\* the 20-day scenario, run over the first n days for every n
ScenarioPrices ==
    <<10, 10, 10, 10, 10, 10, 10, 10, 10, 10, 9, 8, 12, 15, 9, 8, 7, 20, 22, 25>>

InitScenario ==
    InitWith({SubSeq(ScenarioPrices, 1, n) : n \in 0..Len(ScenarioPrices)},
             {<<3, 5>>}, {1000})

SpecScenario == InitScenario /\ [][Next]_vars

\* the core called directly with the window ordering main() rejects
UnorderedWindows == {<<1, 1>>, <<2, 1>>, <<2, 2>>, <<3, 1>>, <<3, 2>>, <<3, 3>>}

InitUnordered == InitWith(SeqsUpTo(1..MaxPrice, MaxLen), UnorderedWindows, Capitals)

SpecUnordered == InitUnordered /\ [][Next]_vars

\* =============================================================== claims
\* the row the next loop iteration reads, and the row read last
NextRow == df[idx + 1]

LastRow == df[idx]

AtRow == pc = "loop" /\ idx < Len(df)

Simulating == pc \in {"loop", "simulated", "done"}

Buys == {k \in 1..Len(trades) : trades[k].Type = "BUY"}

Sells == {k \in 1..Len(trades) : trades[k].Type = "SELL"}

StrictlyIncreasing(s) == \A k \in 1..(Len(s) - 1) : s[k] < s[k + 1]

\* a trade was executed on the row read last
TradedOnLastRow(type) ==
    /\ Simulating
    /\ idx > 0
    /\ trades # <<>>
    /\ trades[Len(trades)].Type = type
    /\ trades[Len(trades)].Date = LastRow.Date

\* C1 (as claimed): when no row survives the warm-up filtering, the run
\* completes and returns the degenerate result: no trades, final value equal
\* to the initial capital, return, win rate and drawdown all 0.
C1_EmptyFrameDegenerate ==
    (pc \notin {"start", "loop"} /\ df = <<>>) =>
        /\ pc \in {"simulated", "done"}
        /\ trades = <<>>
        /\ final_value = initial_capital
        /\ pc = "done" =>
              /\ metrics.num_trades = 0
              /\ metrics.win_rate = Num(0)
              /\ metrics.max_drawdown = Num(0)
              /\ initial_capital > 0 => RatEQ(metrics.total_return, Num(0))

\* C2 (as claimed): a strictly increasing series longer than the long window,
\* with enough capital for the first simulated price, ends with the position
\* open: at most one BUY, no SELL, in_position, unrealized profit > 0.
IncreasingRun ==
    /\ StrictlyIncreasing(prices)
    /\ Len(prices) > long_window
    /\ short_window < long_window
    /\ df # <<>>
    /\ initial_capital >= df[1].Close

C2_IncreasingEndsOpen ==
    (pc = "done" /\ IncreasingRun) =>
        /\ Cardinality(Buys) <= 1
        /\ Sells = {}
        /\ in_position
        /\ unrealized_profit > 0
        /\ metrics.num_trades = 0

\* C2 (amended): on such a series every simulated row has signal +1, the first
\* simulated row has Position +1 (its predecessor's signal is 0) and the later
\* ones 0, so the run records no trade at all and ends flat with the initial
\* capital intact.
C2_IncreasingNeverTrades ==
    (Simulating /\ IncreasingRun) =>
        /\ \A k \in 1..Len(df) : df[k].Signal = 1
        /\ df[1].Position = Num(1)
        /\ trades = <<>>
        /\ ~in_position
        /\ shares = 0
        /\ capital = initial_capital
        /\ pc \in {"simulated", "done"} =>
              /\ unrealized_profit = 0
              /\ final_value = initial_capital
        /\ pc = "done" => metrics.num_trades = 0

C2_Witness ==
    /\ pc = "done"
    /\ IncreasingRun
    /\ Len(df) >= 2
    /\ initial_capital > 0

\* C3: a BUY row (Position = +2, not in position, floor(cash/price) >= 1)
\* buys floor(cash/price) shares, pays exactly shares*price, opens the
\* position at that row's close and date, and appends exactly one BUY trade.
C3_BuyTransition ==
    [][(AtRow /\ NextRow.Position = Num(2) /\ ~in_position
             /\ NextRow.Close > 0 /\ capital >= NextRow.Close) =>
          /\ shares' >= 1
          /\ shares' * NextRow.Close <= capital
          /\ capital < (shares' + 1) * NextRow.Close
          /\ capital' = capital - shares' * NextRow.Close
          /\ in_position'
          /\ entry_price' = NextRow.Close
          /\ entry_date' = NextRow.Date
          /\ trades' = Append(trades, [Type |-> "BUY", Date |-> NextRow.Date,
                                       Price |-> NextRow.Close, Shares |-> shares'])
      ]_vars

C3_Witness ==
    /\ TradedOnLastRow("BUY")
    /\ in_position
    /\ capital > 0
    /\ shares > 1

\* C4: a SELL row (Position = -2, in position) adds shares*price to the cash,
\* appends one SELL trade with the held shares and with profit and profit
\* percentage taken against the open position's entry price, and resets
\* shares, in_position, entry_price and entry_date.
C4_SellTransition ==
    [][(AtRow /\ NextRow.Position = Num(-2) /\ in_position) =>
          /\ capital' = capital + shares * NextRow.Close
          /\ Len(trades') = Len(trades) + 1
          /\ SubSeq(trades', 1, Len(trades)) = trades
          /\ LET t == trades'[Len(trades')] IN
                /\ t.Type = "SELL"
                /\ t.Date = NextRow.Date
                /\ t.Price = NextRow.Close
                /\ t.Shares = shares
                /\ t.Profit = (NextRow.Close - entry_price) * shares
                /\ t.Profit_Pct.den # 0
                /\ t.Profit_Pct.num * entry_price =
                       (NextRow.Close - entry_price) * 100 * t.Profit_Pct.den
          /\ shares' = 0
          /\ ~in_position'
          /\ entry_price' = 0
          /\ entry_date' = 0
      ]_vars

C4_Witness ==
    /\ TradedOnLastRow("SELL")
    /\ trades[Len(trades)].Profit # 0
    /\ trades[Len(trades)].Shares > 1
    /\ ~in_position

\* C5: a BUY row whose price exceeds the available cash (floor(cash/price) = 0)
\* appends no trade and leaves cash, shares, in_position, entry_price and
\* entry_date as they were.
C5_UnaffordableBuyIsNoOp ==
    [][(AtRow /\ NextRow.Position = Num(2) /\ ~in_position
             /\ NextRow.Close > capital /\ capital >= 0) =>
          UNCHANGED <<sim, trades>>
      ]_vars

C5_Witness ==
    /\ Simulating
    /\ idx > 0
    /\ LastRow.Position = Num(2)
    /\ ~in_position
    /\ LastRow.Close > capital
    /\ capital > 0

\* C6 (as claimed): a BUY row whose close is zero or negative is treated as
\* "cannot buy": no division by zero, no trade, state unchanged, shares never
\* negative.
C6_NonPositivePriceIsNoOp ==
    [][(AtRow /\ NextRow.Position = Num(2) /\ ~in_position
             /\ NextRow.Close <= 0) =>
          /\ pc' # "nonfinite"
          /\ shares' >= 0
          /\ UNCHANGED <<sim, trades>>
      ]_vars

\* C7: one snapshot per simulated row, in date order, each valued at
\* cash + shares*close of the state after that row's transition; the last
\* snapshot's value is the final value.
C7_SnapshotPerRow ==
    Simulating =>
        /\ Len(portfolio_values) = idx
        /\ \A k \in 1..idx : portfolio_values[k].Date = df[k].Date
        /\ \A k \in 1..(idx - 1) :
               portfolio_values[k].Date < portfolio_values[k + 1].Date
        /\ idx > 0 =>
               portfolio_values[idx].Value = capital + shares * LastRow.Close
        /\ pc \in {"simulated", "done"} =>
               /\ idx = Len(df)
               /\ portfolio_values[idx].Value = final_value

C7_Witness ==
    /\ pc = "simulated"
    /\ TradedOnLastRow("BUY")
    /\ Len(portfolio_values) >= 3
    /\ Cardinality(Sells) >= 1
    /\ portfolio_values[idx].Value # initial_capital

\* C8: final value = cash + shares*lastClose; a run that ends in position
\* keeps the unmatched BUY as its last trade (no closing SELL is made up),
\* returns the open position's shares, and reports unrealized profit
\* (lastClose - entryPrice)*shares; a run that ends flat reports unrealized
\* profit 0 and final value = cash.
C8_Finalization ==
    pc \in {"simulated", "done"} =>
        /\ final_value = capital + shares * df[Len(df)].Close
        /\ in_position =>
              /\ trades # <<>>
              /\ trades[Len(trades)].Type = "BUY"
              /\ trades[Len(trades)].Shares = shares
              /\ trades[Len(trades)].Price = entry_price
              /\ trades[Len(trades)].Date = entry_date
              /\ shares > 0
              /\ Cardinality(Buys) = Cardinality(Sells) + 1
              /\ unrealized_profit = (df[Len(df)].Close - entry_price) * shares
        /\ ~in_position =>
              /\ unrealized_profit = 0
              /\ final_value = capital
              /\ Cardinality(Buys) = Cardinality(Sells)

C8_Witness ==
    /\ pc = "simulated"
    /\ in_position
    /\ unrealized_profit # 0
    /\ capital > 0
    /\ df[Len(df)].Date > entry_date

RECURSIVE SumShares(_, _)
SumShares(log, type) ==
    IF log = <<>> THEN 0
    ELSE (IF Head(log).Type = type THEN Head(log).Shares ELSE 0)
         + SumShares(Tail(log), type)

\* C9: in every state of a run shares is a non-negative integer equal to the
\* shares of all BUY trades minus the shares of all SELL trades so far, and
\* cash is never negative.
C9_SharesNetOfTrades ==
    /\ shares \in Nat
    /\ shares = SumShares(trades, "BUY") - SumShares(trades, "SELL")
    /\ capital >= 0

C9_Witness ==
    /\ pc = "loop"
    /\ Cardinality(Buys) = 2
    /\ Cardinality(Sells) = 1
    /\ shares > 0
    /\ shares # trades[1].Shares

\* C10: num_trades is the number of SELL trades (an open BUY is not counted);
\* win rate = 100 * (SELLs with profit > 0) / num_trades when num_trades > 0
\* and exactly 0 otherwise; so the win rate lies in [0, 100].
WinningSells == {k \in Sells : trades[k].Profit > 0}

C10_WinRate ==
    pc = "done" =>
        /\ metrics.num_trades = Cardinality(Sells)
        /\ Sells # {} =>
              /\ metrics.win_rate.den > 0
              /\ metrics.win_rate.num * Cardinality(Sells) =
                     100 * Cardinality(WinningSells) * metrics.win_rate.den
        /\ Sells = {} => metrics.win_rate = Num(0)
        /\ metrics.win_rate.den > 0
        /\ 0 <= metrics.win_rate.num
        /\ metrics.win_rate.num <= 100 * metrics.win_rate.den

C10_Witness ==
    /\ pc = "done"
    /\ Cardinality(Sells) = 1
    /\ Cardinality(WinningSells) = 1
    /\ metrics.num_trades = 1
    /\ metrics.win_rate = Num(100)

\* the Value column recorded so far, and its running peak
Values == ValueColumn(portfolio_values)

PeakAt(t) == CHOOSE m \in {Values[u] : u \in 1..t} : \A u \in 1..t : Values[u] <= m

NeverBelowPeak == \A t \in 1..Len(Values) : Values[t] = PeakAt(t)

\* C11 (as claimed): for every non-empty trajectory of a run the maximum
\* drawdown is a number <= 0, namely the least (value - peak)/peak*100 over
\* the trajectory, and it is 0 exactly when the value never falls below its
\* running peak.
C11_DrawdownNonPositive ==
    (pc = "done" /\ Values # <<>>) =>
        LET md == metrics.max_drawdown IN
        /\ md.den > 0
        /\ md.num <= 0
        /\ (md.num = 0) = NeverBelowPeak
        /\ \A t \in 1..Len(Values) :
               md.num * PeakAt(t) <= (Values[t] - PeakAt(t)) * 100 * md.den
        /\ \E t \in 1..Len(Values) :
               md.num * PeakAt(t) = (Values[t] - PeakAt(t)) * 100 * md.den

ConstantSeries(s) == s # <<>> /\ \A k \in 1..Len(s) : s[k] = s[1]

\* C12 (as claimed): on a constant price series of any length every warmed-up
\* row has equal averages and signal -1, and the run produces no trade,
\* final value = initial capital, total return 0 and maximum drawdown 0.
C12_ConstantSeriesFlat ==
    (ConstantSeries(prices) /\ short_window < long_window /\ pc # "start") =>
        /\ pc # "IndexError"
        /\ \A k \in 1..Len(df) :
               /\ RatEQ(df[k].SMA_Short, df[k].SMA_Long)
               /\ df[k].Signal = -1
        /\ trades = <<>>
        /\ pc \in {"simulated", "done"} => final_value = initial_capital
        /\ pc = "done" =>
               /\ metrics.num_trades = 0
               /\ RatEQ(metrics.total_return, Num(0))
               /\ RatEQ(metrics.max_drawdown, Num(0))

\* C13: the 20-day scenario with windows 3/5 and capital 1000 (row numbers
\* here are the 0-based indices plus 1): nothing before index 4 is simulated;
\* the first trade is a BUY of 66 shares at 15 on index 13, the first row
\* whose 3-day average exceeds the 5-day average; the next is a SELL at 7 on
\* index 16; a second BUY on index 18 stays open; the final value is 535 and
\* the maximum drawdown is negative.
C13_Scenario ==
    (prices = ScenarioPrices /\ Simulating) =>
        /\ Len(df) = 16
        /\ \A k \in 1..Len(df) : df[k].Date = k + 4
        /\ \A k \in 1..Len(df) :
               df[k].Date < 14 => ~RatGT(df[k].SMA_Short, df[k].SMA_Long)
        /\ RatGT(df[10].SMA_Short, df[10].SMA_Long)
        /\ idx < 10 => trades = <<>>
        /\ idx >= 10 =>
               /\ Len(trades) >= 1
               /\ trades[1] = [Type |-> "BUY", Date |-> 14, Price |-> 15,
                               Shares |-> 66]
        /\ (idx >= 10 /\ idx < 13) => Len(trades) = 1
        /\ idx >= 13 =>
               /\ Len(trades) >= 2
               /\ trades[2].Type = "SELL"
               /\ trades[2].Date = 17
               /\ trades[2].Price = 7
               /\ trades[2].Shares = 66
               /\ trades[2].Profit = -528
        /\ pc \in {"simulated", "done"} =>
               /\ Len(trades) = 3
               /\ trades[3] = [Type |-> "BUY", Date |-> 19, Price |-> 22,
                               Shares |-> 21]
               /\ in_position
               /\ final_value = 535
        /\ pc = "done" => RatLT(metrics.max_drawdown, Num(0))

C13_Witness ==
    /\ prices = ScenarioPrices
    /\ pc = "done"
    /\ metrics.final_value = 535
    /\ metrics.num_trades = 1

\* C14 (as claimed): called with short_window >= long_window the pipeline
\* makes a no-trade run on every price series: the trade log stays empty and
\* the run ends out of position.
C14_UnorderedWindowsNoTrade ==
    (short_window >= long_window /\ pc # "start") =>
        /\ trades = <<>>
        /\ ~in_position
        /\ shares = 0

\* C15 (as claimed): no run divides by zero: the entry price is positive
\* whenever a position is open (so profit and unrealized percentages are
\* defined), the running peak is positive at every snapshot a drawdown is
\* computed for, and the total return is well defined.
C15_NoDivisionByZero ==
    /\ in_position => entry_price > 0
    /\ \A k \in Sells : trades[k].Profit_Pct.den # 0
    /\ pc \in {"simulated", "done"} => unrealized_pct.den # 0
    /\ pc = "done" =>
           /\ \A t \in 1..Len(Values) : PeakAt(t) > 0
           /\ metrics.max_drawdown.den # 0
           /\ initial_capital # 0
           /\ metrics.total_return.den # 0

\* the next row executes a BUY / a SELL
ExecutesBuy ==
    /\ NextRow.Position = Num(2)
    /\ ~in_position
    /\ NextRow.Close > 0
    /\ capital >= NextRow.Close

ExecutesSell == NextRow.Position = Num(-2) /\ in_position

OpenPositions == Cardinality(Buys) - Cardinality(Sells)

\* C16: a row that executes neither a BUY nor a SELL leaves cash, shares,
\* in_position, entry_price, entry_date and the trade log unchanged; the
\* trade log only grows by appending; at most one position is open.
C16_OtherRowsAreNoOps ==
    [][/\ (AtRow /\ ~ExecutesBuy /\ ~ExecutesSell) => UNCHANGED <<sim, trades>>
       /\ Len(trades') >= Len(trades)
       /\ SubSeq(trades', 1, Len(trades)) = trades
       /\ OpenPositions' \in {0, 1}
      ]_vars

C16_Witness ==
    /\ Simulating
    /\ idx > 1
    /\ LastRow.Position = Num(-2)
    /\ ~in_position
    /\ trades = <<>>
    /\ capital = initial_capital
    /\ capital > 0

\* the sums of the last `window` closes up to (unfiltered) row i
CloseSum(i, window) == SumRange(prices, i - window + 1, i)

\* shortMA > longMA on row i, with the divisions multiplied out
ShortAboveLong(i) ==
    CloseSum(i, short_window) * long_window > CloseSum(i, long_window) * short_window

\* C17: with short_window < long_window every simulated row has signal +1
\* if shortMA > longMA and -1 otherwise (a tie gives -1); every simulated row
\* after the first has Position = its signal minus the previous simulated
\* row's signal, one of 0, +2, -2; the first simulated row triggers no trade.
C17_SignalsAndDeltas ==
    (Simulating /\ short_window < long_window) =>
        /\ \A k \in 1..Len(df) :
               df[k].Signal = IF ShortAboveLong(df[k].Date) THEN 1 ELSE -1
        /\ \A k \in 2..Len(df) :
               /\ df[k].Date = df[k - 1].Date + 1
               /\ df[k].Position = Num(df[k].Signal - df[k - 1].Signal)
               /\ df[k].Signal - df[k - 1].Signal \in {0, 2, -2}
        /\ df # <<>> =>
               /\ df[1].Position \notin {Num(2), Num(-2)}
               /\ \A n \in 1..Len(trades) : trades[n].Date # df[1].Date

C17_Witness ==
    /\ pc = "loop"
    /\ idx = Len(df)
    /\ Len(df) >= 3
    /\ \E k \in 1..Len(df) :
           RatEQ(df[k].SMA_Short, df[k].SMA_Long) /\ df[k].Signal = -1
    /\ \E k \in 2..Len(df) : df[k].Position = Num(2)
    /\ \E k \in 2..Len(df) : df[k].Position = Num(-2)
    /\ df[1].Signal = 1
    /\ trades # <<>>

\* C18: the trade log alternates BUY, SELL, BUY, ... starting with a BUY;
\* each SELL carries the share count of the BUY before it; BUYs minus SELLs
\* is 1 exactly when in position (and then shares > 0) and 0 exactly when
\* not (and then shares = 0).
C18_LogAlternates ==
    /\ \A k \in 1..Len(trades) :
           trades[k].Type = IF k % 2 = 1 THEN "BUY" ELSE "SELL"
    /\ \A k \in 1..Len(trades) :
           k % 2 = 0 =>
               /\ trades[k].Shares = trades[k - 1].Shares
               /\ trades[k].Date > trades[k - 1].Date
    /\ OpenPositions \in {0, 1}
    /\ (OpenPositions = 1) = in_position
    /\ in_position => shares > 0
    /\ ~in_position => shares = 0

C18_Witness ==
    /\ Simulating
    /\ Len(trades) = 3
    /\ in_position
    /\ trades[2].Shares > 1
    /\ trades[3].Shares # trades[1].Shares

RECURSIVE SumProfit(_)
SumProfit(log) ==
    IF log = <<>> THEN 0
    ELSE (IF Head(log).Type = "SELL" THEN Head(log).Profit ELSE 0)
         + SumProfit(Tail(log))

\* C19: accounting identity for positive prices: the final value is the
\* initial capital plus the profits of all SELL trades plus the unrealized
\* profit; whenever the simulator is flat its cash is the initial capital
\* plus the realized profits; and a row's BUY or SELL at the close leaves
\* cash + shares*close unchanged.
C19_AccountingIdentity ==
    [][/\ AtRow => capital' + shares' * NextRow.Close
                       = capital + shares * NextRow.Close
       /\ pc' \in {"simulated", "done"} =>
              final_value' = initial_capital + SumProfit(trades') + unrealized_profit'
       /\ (pc' \in {"loop", "simulated", "done"} /\ ~in_position') =>
              capital' = initial_capital + SumProfit(trades')
      ]_vars

C19_Witness ==
    /\ pc = "done"
    /\ Len(trades) = 3
    /\ SumProfit(trades) # 0
    /\ final_value # initial_capital
    /\ capital > 0

\* C20: with short_window < long_window, after any simulated row an open
\* position implies that row's signal is +1; so a Position of +2 never meets
\* an open position, and every BUY comes right after a simulated row with
\* signal -1.
C20_LongOnlyAboveCross ==
    (Simulating /\ short_window < long_window) =>
        /\ (idx > 0 /\ in_position) => LastRow.Signal = 1
        /\ (idx < Len(df) /\ in_position) => NextRow.Position # Num(2)
        /\ \A n \in Buys :
               \E k \in 2..Len(df) :
                   /\ df[k].Date = trades[n].Date
                   /\ df[k].Signal = 1
                   /\ df[k - 1].Signal = -1

C20_Witness ==
    /\ pc = "loop"
    /\ in_position
    /\ idx < Len(df)
    /\ LastRow.Date > entry_date
    /\ LastRow.Signal = 1
    /\ NextRow.Position = Num(-2)

====
